---- MODULE Spec2Model ----
(* Model of the furniture stock ledger, src/stock web/python/Furniture_stock.py. *)
(* The ledger (class StockManager) holds a list of items and rewrites a JSON   *)
(* file after every successful mutation.  Strings are sequences of character   *)
(* codes, the file is a sequence of JSON tokens (or is absent).                *)
EXTENDS Integers, Sequences, FiniteSets, TLC

VARIABLES stock_items, store, call, result, printed, wrote, failures,
          report, found, pc, input, net

vars == <<stock_items, store, call, result, printed, wrote, failures,
          report, found, pc, input, net>>

----------------------------------------------------------------------------
(* Bounds of the model. *)

\* largest quantity argument passed to add_stock / allocate_stock
MaxQty == 1
\* largest quantity an item is allowed to reach in the model
MaxStock == 2
\* number of saves the file system lets fail in one behaviour
MaxWriteFailures == 2
\* failed saves in one session at the menu
MaxMenuFailures == 1

----------------------------------------------------------------------------
(* Strings and the inputs drawn by the operations. *)

Chair == <<67, 104>>
chair == <<99, 104>>
Desk == <<68, 101>>

Names == {Chair, chair, Desk}
QtyArgs == (0 - 1) .. MaxQty

\* str.lower() on ASCII text
Lower(s) == [i \in DOMAIN s |-> IF s[i] \in 65 .. 90 THEN s[i] + 32 ELSE s[i]]

\* every id the ledger can hold with these names, and an id on either side
IdArgs == 0 .. (Cardinality({Lower(n) : n \in Names}) + 1)

----------------------------------------------------------------------------
(* The JSON text of the storage file, as tokens. *)

Tok(t, k, s, n) == [t |-> t, k |-> k, s |-> s, n |-> n]
LB == Tok("[", "", <<>>, 0)
RB == Tok("]", "", <<>>, 0)
LC == Tok("{", "", <<>>, 0)
RC == Tok("}", "", <<>>, 0)
Key(k) == Tok("key", k, <<>>, 0)
IntTok(n) == Tok("int", "", <<>>, n)
StrTok(s) == Tok("str", "", s, 0)

\* variant: the name is written in lower case
DumpItem_lowered(item) ==
    <<LC, Key("id"), IntTok(item.id), Key("name"), StrTok(Lower(item.name)),
      Key("quantity"), IntTok(item.quantity), RC>>

DumpItem(item) ==
    <<LC, Key("id"), IntTok(item.id), Key("name"), StrTok(item.name),
      Key("quantity"), IntTok(item.quantity), RC>>

RECURSIVE DumpItems(_)
DumpItems(items) ==
    IF items = <<>> THEN <<>>
    ELSE DumpItem(Head(items)) \o DumpItems(Tail(items))

\* json.dump(self.stock_items, f, indent=2)
JsonDump(items) == <<LB>> \o DumpItems(items) \o <<RB>>

\* a stock item: {'id': ..., 'name': ..., 'quantity': ...}
Item(id, name, quantity) == [id |-> id, name |-> name, quantity |-> quantity]

NoFile == [exists |-> FALSE, text |-> <<>>]
File(text) == [exists |-> TRUE, text |-> text]

(* json.load: the value a token sequence parses to, or a parse failure. *)

TokValue(tok) == IF tok.t = "int" THEN tok.n ELSE tok.s

\* the members of an object, as a sequence of <<key, value token>> pairs
RECURSIVE ParseMembers(_)
ParseMembers(ts) ==
    IF ts = <<>> THEN [ok |-> TRUE, pairs |-> <<>>]
    ELSE IF Len(ts) < 2 \/ ts[1].t # "key" \/ ts[2].t \notin {"int", "str"}
         THEN [ok |-> FALSE, pairs |-> <<>>]
         ELSE LET rest == ParseMembers(SubSeq(ts, 3, Len(ts)))
              IN  [ok |-> rest.ok, pairs |-> <<<<ts[1].k, ts[2]>>>> \o rest.pairs]

\* the dict built from the members; a repeated key keeps its last value
MakeDict(pairs) ==
    [k \in {pairs[i][1] : i \in DOMAIN pairs} |->
        LET last == CHOOSE i \in DOMAIN pairs :
                        /\ pairs[i][1] = k
                        /\ \A j \in DOMAIN pairs : pairs[j][1] = k => j <= i
        IN  TokValue(pairs[last][2])]

\* index of the first "}" of ts, 0 if there is none
FirstRC(ts) ==
    IF \E i \in DOMAIN ts : ts[i].t = "}"
    THEN CHOOSE i \in DOMAIN ts :
            /\ ts[i].t = "}"
            /\ \A j \in 1 .. (i - 1) : ts[j].t # "}"
    ELSE 0

\* the elements of an array: scalars or flat objects
RECURSIVE ParseElems(_)
ParseElems(ts) ==
    IF ts = <<>> THEN [ok |-> TRUE, val |-> <<>>]
    ELSE IF ts[1].t \in {"int", "str"}
    THEN LET rest == ParseElems(Tail(ts))
         IN  [ok |-> rest.ok, val |-> <<TokValue(ts[1])>> \o rest.val]
    ELSE IF ts[1].t = "{" /\ FirstRC(ts) > 0
    THEN LET j == FirstRC(ts)
             m == ParseMembers(SubSeq(ts, 2, j - 1))
             rest == ParseElems(SubSeq(ts, j + 1, Len(ts)))
         IN  [ok |-> m.ok /\ rest.ok,
              val |-> IF m.ok THEN <<MakeDict(m.pairs)>> \o rest.val ELSE <<>>]
    ELSE [ok |-> FALSE, val |-> <<>>]

ParseFail == [ok |-> FALSE, is_list |-> FALSE, val |-> <<>>]

\* data = json.load(f); is_list is isinstance(data, list).  The value of a
\* document that is not an array is not used by the program and is left out.
JsonLoad(text) ==
    IF text = <<>> THEN ParseFail
    ELSE IF Len(text) = 1
    THEN IF text[1].t \in {"int", "str"}
         THEN [ok |-> TRUE, is_list |-> FALSE, val |-> <<>>]
         ELSE ParseFail
    ELSE IF text[1].t = "{" /\ FirstRC(text) = Len(text)
    THEN [ok |-> ParseMembers(SubSeq(text, 2, Len(text) - 1)).ok,
          is_list |-> FALSE, val |-> <<>>]
    ELSE IF text[1].t = "[" /\ text[Len(text)].t = "]"
    THEN LET e == ParseElems(SubSeq(text, 2, Len(text) - 1))
         IN  [ok |-> e.ok, is_list |-> e.ok, val |-> e.val]
    ELSE ParseFail


----------------------------------------------------------------------------
(* class StockManager *)

\* outcomes of the file system for one save: the write succeeds, open() fails
\* and the file keeps its content, or the file is truncated by open() and the
\* write stops after k tokens.  Every strict prefix of the text fails to parse,
\* so the shortest and the longest one stand for all of them.
IoOk == [kind |-> "ok", k |-> 0]

SaveOutcomes(items) ==
    {IoOk, [kind |-> "open_fails", k |-> 0]}
    \cup {[kind |-> "write_fails", k |-> k] : k \in {0, Len(JsonDump(items)) - 1}}

\* variant: the file is written only when it does not exist yet
save_stock_create_only(items, st, io) ==
    IF io.kind = "ok"
    THEN [store |-> IF st.exists THEN st ELSE File(JsonDump(items)),
          wrote |-> "ok", printed |-> <<>>]
    ELSE IF io.kind = "open_fails"
    THEN [store |-> st, wrote |-> "failed", printed |-> <<"SaveError">>]
    ELSE [store |-> File(SubSeq(JsonDump(items), 1, io.k)),
          wrote |-> "failed", printed |-> <<"SaveError">>]

\* variant: the file is opened for appending
save_stock_appends(items, st, io) ==
    IF io.kind = "ok"
    THEN [store |-> File(st.text \o JsonDump(items)), wrote |-> "ok", printed |-> <<>>]
    ELSE IF io.kind = "open_fails"
    THEN [store |-> st, wrote |-> "failed", printed |-> <<"SaveError">>]
    ELSE [store |-> File(st.text \o SubSeq(JsonDump(items), 1, io.k)),
          wrote |-> "failed", printed |-> <<"SaveError">>]

\* save_stock: the content of the file after the call, and what is printed
save_stock(items, st, io) ==
    IF io.kind = "ok"
    THEN [store |-> File(JsonDump(items)), wrote |-> "ok", printed |-> <<>>]
    ELSE IF io.kind = "open_fails"
    THEN [store |-> st, wrote |-> "failed", printed |-> <<"SaveError">>]
    ELSE [store |-> File(SubSeq(JsonDump(items), 1, io.k)),
          wrote |-> "failed", printed |-> <<"SaveError">>]

\* load_stock: the list the ledger starts with
load_stock(st, readOk) ==
    IF st.exists
    THEN IF ~readOk
         THEN [items |-> <<>>, printed |-> <<"ReadWarning">>]
         ELSE LET data == JsonLoad(st.text)
              IN  IF ~data.ok
                  THEN [items |-> <<>>, printed |-> <<"ReadWarning">>]
                  ELSE IF data.is_list
                  THEN [items |-> data.val, printed |-> <<>>]
                  ELSE [items |-> <<>>, printed |-> <<"FormatWarning">>]
    ELSE [items |-> <<>>, printed |-> <<>>]

MaxOf(S) == CHOOSE m \in S : \A x \in S : x <= m

\* variant: the increment of the maximum is forgotten
generate_next_id_no_increment(items) ==
    IF items = <<>> THEN 1
    ELSE MaxOf({items[i].id : i \in DOMAIN items})

generate_next_id(items) ==
    IF items = <<>> THEN 1
    ELSE MaxOf({items[i].id : i \in DOMAIN items}) + 1

\* variant: zero is let through
InvalidQuantity_negative_only(quantity) == quantity < 0

\* the quantity <= 0 test of add_stock and allocate_stock
InvalidQuantity(quantity) == quantity <= 0

\* variant: the names are compared as they are
NameMatches_case_sensitive(item, name) == item.name = name

\* item['name'].lower() == name.lower()
NameMatches(item, name) == Lower(item.name) = Lower(name)

\* for item in self.stock_items, up to the first item with that name:
\* its index, 0 if there is none
FirstByName(items, name) ==
    IF \E i \in DOMAIN items : NameMatches(items[i], name)
    THEN CHOOSE i \in DOMAIN items :
            /\ NameMatches(items[i], name)
            /\ \A j \in 1 .. (i - 1) : ~NameMatches(items[j], name)
    ELSE 0

\* variant: the name is stored in lower case
NewItem_lowered(items, name, quantity) ==
    [id |-> generate_next_id(items), name |-> Lower(name), quantity |-> quantity]

NewItem(items, name, quantity) ==
    [id |-> generate_next_id(items), name |-> name, quantity |-> quantity]

\* variant: the call hands the item it changed or created back to its caller
Saved_returns_item(items, result_value, msg, sv) ==
    [items |-> items, store |-> sv.store, result |-> "Item",
     printed |-> <<msg>> \o sv.printed, wrote |-> sv.wrote]

\* the outcome of a call that changed the list to items, printed msg, called
\* save_stock with the outcome sv, and returns result
Saved(items, result_value, msg, sv) ==
    [items |-> items, store |-> sv.store, result |-> result_value,
     printed |-> <<msg>> \o sv.printed, wrote |-> sv.wrote]

\* variant: the list is put back as it was when the save fails
add_stock_rollback(items, st, name, quantity, io) ==
    IF InvalidQuantity(quantity)
    THEN [items |-> items, store |-> st, result |-> "ValueError",
          printed |-> <<>>, wrote |-> "none"]
    ELSE LET i == FirstByName(items, name)
             after == IF i > 0
                      THEN [items EXCEPT ![i].quantity = @ + quantity]
                      ELSE Append(items, NewItem(items, name, quantity))
             r == Saved(after, "None", IF i > 0 THEN "Updated" ELSE "Added",
                        save_stock(after, st, io))
         IN  [r EXCEPT !.items = IF r.wrote = "failed" THEN items ELSE after]

\* variant: the quantity of an existing item is set to the quantity given
add_stock_sets_quantity(items, st, name, quantity, io) ==
    IF InvalidQuantity(quantity)
    THEN [items |-> items, store |-> st, result |-> "ValueError",
          printed |-> <<>>, wrote |-> "none"]
    ELSE LET i == FirstByName(items, name)
         IN  IF i > 0
             THEN LET updated == [items EXCEPT ![i].quantity = quantity]
                  IN  Saved(updated, "None", "Updated", save_stock(updated, st, io))
             ELSE LET new_item == NewItem(items, name, quantity)
                      appended == Append(items, new_item)
                  IN  Saved(appended, "None", "Added", save_stock(appended, st, io))

add_stock(items, st, name, quantity, io) ==
    IF InvalidQuantity(quantity)
    THEN [items |-> items, store |-> st, result |-> "ValueError",
          printed |-> <<>>, wrote |-> "none"]
    ELSE LET i == FirstByName(items, name)
         IN  IF i > 0
             THEN LET updated == [items EXCEPT ![i].quantity = @ + quantity]
                  IN  Saved(updated, "None", "Updated", save_stock(updated, st, io))
             ELSE LET new_item == NewItem(items, name, quantity)
                      appended == Append(items, new_item)
                  IN  Saved(appended, "None", "Added", save_stock(appended, st, io))

\* variant: the id is taken for a position counted from 0
IdMatches_zero_based(item, item_id) == item.id - 1 = item_id

\* item['id'] == item_id
IdMatches(item, item_id) == item.id = item_id

\* for item in self.stock_items, up to the first item with that id:
\* its index, 0 if there is none
FirstById(items, item_id) ==
    IF \E i \in DOMAIN items : IdMatches(items[i], item_id)
    THEN CHOOSE i \in DOMAIN items :
            /\ IdMatches(items[i], item_id)
            /\ \A j \in 1 .. (i - 1) : ~IdMatches(items[j], item_id)
    ELSE 0

\* variant: the comparison is off by one and lets one unit too many go
Sufficient_off_by_one(item, quantity) == item.quantity + 1 >= quantity

\* variant: the comparison is strict and refuses to take the last units
Sufficient_strict(item, quantity) == item.quantity > quantity

\* item['quantity'] >= quantity
Sufficient(item, quantity) == item.quantity >= quantity

\* variant: an item allocated down to nothing is taken off the list
allocate_stock_removes_empty(items, st, item_id, quantity, io) ==
    IF InvalidQuantity(quantity)
    THEN [items |-> items, store |-> st, result |-> "ValueError",
          printed |-> <<>>, wrote |-> "none"]
    ELSE LET i == FirstById(items, item_id)
         IN  IF i > 0
             THEN IF Sufficient(items[i], quantity)
                  THEN LET updated ==
                               IF items[i].quantity = quantity
                               THEN SubSeq(items, 1, i - 1) \o SubSeq(items, i + 1, Len(items))
                               ELSE [items EXCEPT ![i].quantity = @ - quantity]
                       IN  Saved(updated, "True", "Allocated", save_stock(updated, st, io))
                  ELSE [items |-> items, store |-> st, result |-> "False",
                        printed |-> <<"InsufficientStock">>, wrote |-> "none"]
             ELSE [items |-> items, store |-> st, result |-> "False",
                   printed |-> <<"ItemNotFound">>, wrote |-> "none"]

allocate_stock(items, st, item_id, quantity, io) ==
    IF InvalidQuantity(quantity)
    THEN [items |-> items, store |-> st, result |-> "ValueError",
          printed |-> <<>>, wrote |-> "none"]
    ELSE LET i == FirstById(items, item_id)
         IN  IF i > 0
             THEN IF Sufficient(items[i], quantity)
                  THEN LET updated == [items EXCEPT ![i].quantity = @ - quantity]
                       IN  Saved(updated, "True", "Allocated", save_stock(updated, st, io))
                  ELSE [items |-> items, store |-> st, result |-> "False",
                        printed |-> <<"InsufficientStock">>, wrote |-> "none"]
             ELSE [items |-> items, store |-> st, result |-> "False",
                   printed |-> <<"ItemNotFound">>, wrote |-> "none"]

RECURSIVE SumOf(_)
\* sum(...) over a sequence of numbers
SumOf(numbers) ==
    IF numbers = <<>> THEN 0
    ELSE numbers[Len(numbers)] + SumOf(SubSeq(numbers, 1, Len(numbers) - 1))

\* item.copy(): a new dict with the keys and the values of item
CopyDict(item) == [k \in DOMAIN item |-> item[k]]

\* variant: the items out of stock are not counted
get_report_in_stock(items) ==
    [given |-> TRUE,
     total_distinct_items |-> Cardinality({i \in DOMAIN items : items[i].quantity > 0}),
     total_quantity |-> SumOf([i \in DOMAIN items |-> items[i].quantity]),
     items |-> [i \in DOMAIN items |-> CopyDict(items[i])],
     aliases |-> 0]

\* variant: the list is copied, the dicts in it are the ledger's own
get_report_shallow(items) ==
    [given |-> TRUE,
     total_distinct_items |-> Len(items),
     total_quantity |-> SumOf([i \in DOMAIN items |-> items[i].quantity]),
     items |-> items,
     aliases |-> Len(items)]

\* get_report.  aliases is the number of leading dicts of the returned list
\* that are the very dicts of the ledger: none, each being a copy in a new list.
get_report(items) ==
    [given |-> TRUE,
     total_distinct_items |-> Len(items),
     total_quantity |-> SumOf([i \in DOMAIN items |-> items[i].quantity]),
     items |-> [i \in DOMAIN items |-> CopyDict(items[i])],
     aliases |-> 0]

\* no report is held by the caller
NoReport ==
    [given |-> FALSE, total_distinct_items |-> 0, total_quantity |-> 0,
     items |-> <<>>, aliases |-> 0]

\* find_item_by_id: the position of the item returned, 0 for None
find_item_by_id(items, item_id) == FirstById(items, item_id)

----------------------------------------------------------------------------
(* main: the menu loop. *)

RECURSIVE Strip(_)
\* str.strip() for the space
Strip(s) ==
    IF s = <<>> THEN s
    ELSE IF s[1] = 32 THEN Strip(Tail(s))
    ELSE IF s[Len(s)] = 32 THEN Strip(SubSeq(s, 1, Len(s) - 1))
    ELSE s

\* the characters "0" to "9"
DecimalDigits == 48 .. 57
\* the superscript digits: digits for str.isdigit(), not for int()
SuperscriptDigits == {178, 179, 185}

\* str.isdigit()
IsDigit(s) ==
    s # <<>> /\ \A i \in DOMAIN s : s[i] \in DecimalDigits \cup SuperscriptDigits

\* int(s) raises ValueError, for a string without sign or space
IntRaises(s) == s = <<>> \/ \E i \in DOMAIN s : s[i] \notin DecimalDigits

RECURSIVE IntOf(_)
\* int(s) for a string of decimal digits
IntOf(s) ==
    IF s = <<>> THEN 0
    ELSE 10 * IntOf(SubSeq(s, 1, Len(s) - 1)) + (s[Len(s)] - 48)

NoCall == [op |-> "none", name |-> <<>>, item_id |-> 0, quantity |-> 0]

\* an iteration that prints msg and goes back to the menu without a call
Rejected(items, st, msg) ==
    [items |-> items, store |-> st, result |-> "None", printed |-> <<msg>>,
     wrote |-> "none", pc |-> "menu", call |-> NoCall]

\* int() raises ValueError outside of any try: the process ends with a traceback
Uncaught(items, st) ==
    [items |-> items, store |-> st, result |-> "ValueError", printed |-> <<"Traceback">>,
     wrote |-> "none", pc |-> "traceback", call |-> NoCall]

\* an iteration that made the call c of the ledger with the outcome r
Called(r, c) ==
    [items |-> r.items, store |-> r.store, result |-> r.result,
     printed |-> r.printed \o (IF r.result = "ValueError" THEN <<"Error">>
                               ELSE IF r.result = "False" THEN <<"AllocationFailed">>
                               ELSE <<>>),
     wrote |-> r.wrote, pc |-> "menu", call |-> c]

\* choice == '1'
choice_add(items, st, name_in, quantity_in, io) ==
    IF Strip(name_in) = <<>> THEN Rejected(items, st, "NameEmpty")
    ELSE IF ~IsDigit(Strip(quantity_in)) THEN Rejected(items, st, "QuantityNotInteger")
    ELSE IF IntRaises(Strip(quantity_in)) THEN Uncaught(items, st)
    ELSE Called(add_stock(items, st, Strip(name_in), IntOf(Strip(quantity_in)), io),
                [op |-> "add_stock", name |-> Strip(name_in), item_id |-> 0,
                 quantity |-> IntOf(Strip(quantity_in))])

\* choice == '2'
choice_allocate(items, st, id_in, quantity_in, io) ==
    IF items = <<>> THEN Rejected(items, st, "NoStockItems")
    ELSE IF ~IsDigit(Strip(id_in)) THEN Rejected(items, st, "IdNotInteger")
    ELSE IF IntRaises(Strip(id_in)) THEN Uncaught(items, st)
    ELSE IF ~IsDigit(Strip(quantity_in)) THEN Rejected(items, st, "QuantityNotInteger")
    ELSE IF IntRaises(Strip(quantity_in)) THEN Uncaught(items, st)
    ELSE Called(allocate_stock(items, st, IntOf(Strip(id_in)), IntOf(Strip(quantity_in)), io),
                [op |-> "allocate_stock", name |-> <<>>, item_id |-> IntOf(Strip(id_in)),
                 quantity |-> IntOf(Strip(quantity_in))])

\* what was typed in an iteration; a prompt that was not reached has <<>>
Input(choice, name, id_str, quantity_str) ==
    [choice |-> choice, name |-> name, id_str |-> id_str, quantity_str |-> quantity_str]

NoInput == Input(<<>>, <<>>, <<>>, <<>>)

\* the lines typed at the prompts
ChoiceInputs == {<<49>>, <<50>>, <<51>>, <<52>>, <<53>>, <<54>>, <<>>, <<32, 49>>}
NameInputs == Names \cup {<<>>, <<32>>}
QtyInputs == {<<48 + q>> : q \in 0 .. MaxQty} \cup {<<45, 49>>, <<97>>, <<178>>}
IdInputs == {<<48 + i>> : i \in IdArgs} \cup {<<97>>, <<178>>}

----------------------------------------------------------------------------
(* The state machine: one ledger, one storage file, sequential calls. *)

Call(op, name, item_id, quantity) ==
    [op |-> op, name |-> name, item_id |-> item_id, quantity |-> quantity]

\* a first run of the program in a directory without a storage file
\* the names up to case
NameClasses == {Lower(n) : n \in Names}

\* the tally of a ledger that starts empty
NoneTallied == [n \in NameClasses |-> 0]

\* the text is the text of an array of {id, name, quantity} records, an
\* integer, a string and an integer
ListOfRecords(text) ==
    /\ Len(text) >= 2
    /\ (Len(text) - 2) % 8 = 0
    /\ text[1].t = "["
    /\ text[Len(text)].t = "]"
    /\ \A b \in 0 .. ((Len(text) - 2) \div 8 - 1) :
        /\ text[8 * b + 2].t = "{"
        /\ text[8 * b + 3] = Key("id")
        /\ text[8 * b + 4].t = "int"
        /\ text[8 * b + 5] = Key("name")
        /\ text[8 * b + 6].t = "str"
        /\ text[8 * b + 7] = Key("quantity")
        /\ text[8 * b + 8].t = "int"
        /\ text[8 * b + 9].t = "}"

\* the quantity held under each name by a list of items
ByName(items) ==
    [n \in NameClasses |->
        SumOf([i \in DOMAIN items |->
                  IF Lower(items[i].name) = n THEN items[i].quantity ELSE 0])]

\* the quantities a ledger constructed on the file st starts with
Constructed(st, items) ==
    IF st.exists /\ ListOfRecords(st.text) THEN ByName(items) ELSE NoneTallied

\* the tally t after the call c on the list items has ended with res: by name,
\* what the ledger started with, plus the quantity added, less the quantity
\* allocated; add_stock counts when it returns, allocate_stock when it returns
\* True, for the name of the item with the id
Tallied(t, items, c, res) ==
    IF c.op = "add_stock" /\ res = "None"
    THEN [t EXCEPT ![Lower(c.name)] = @ + c.quantity]
    ELSE IF c.op = "allocate_stock" /\ res = "True"
                /\ \E i \in DOMAIN items : items[i].id = c.item_id
    THEN [t EXCEPT ![Lower(items[CHOOSE i \in DOMAIN items :
                                     items[i].id = c.item_id].name)] = @ - c.quantity]
    ELSE t

Init ==
    /\ store = NoFile
    /\ stock_items = load_stock(NoFile, TRUE).items
    /\ call = Call("init", <<>>, 0, 0)
    /\ result = "None"
    /\ printed = load_stock(NoFile, TRUE).printed
    /\ wrote = "none"
    /\ failures = 0
    /\ report = NoReport
    /\ found = 0
    /\ pc = "menu"
    /\ input = NoInput
    /\ net = NoneTallied

\* the quantity an item would reach stays within the bound of the model
WithinBounds(name, quantity) ==
    \A i \in DOMAIN stock_items :
        NameMatches(stock_items[i], name) => stock_items[i].quantity + quantity <= MaxStock

\* the outcomes the file system can give to a call: one per way its save can
\* end, a single one when the call does not save (r is the call's result when
\* the save succeeds)
Outcomes(r) ==
    IF r.wrote = "none" THEN {IoOk}
    ELSE IF failures < MaxWriteFailures THEN SaveOutcomes(r.items)
    ELSE {IoOk}

AddStock ==
    \E name \in Names, quantity \in QtyArgs :
        /\ WithinBounds(name, quantity)
        /\ \E io \in Outcomes(add_stock(stock_items, store, name, quantity, IoOk)) :
            \E r \in {add_stock(stock_items, store, name, quantity, io)} :
                /\ stock_items' = r.items
                /\ failures' = failures + (IF r.wrote = "failed" THEN 1 ELSE 0)
                /\ store' = r.store
                /\ call' = Call("add_stock", name, 0, quantity)
                /\ result' = r.result
                /\ printed' = r.printed
                /\ wrote' = r.wrote
                /\ report' = NoReport
                /\ found' = 0
                /\ net' = Tallied(net, stock_items, call', result')
                /\ UNCHANGED <<pc, input>>

AllocateStock ==
    \E item_id \in IdArgs, quantity \in QtyArgs :
        \E io \in Outcomes(allocate_stock(stock_items, store, item_id, quantity, IoOk)) :
            \E r \in {allocate_stock(stock_items, store, item_id, quantity, io)} :
                /\ stock_items' = r.items
                /\ failures' = failures + (IF r.wrote = "failed" THEN 1 ELSE 0)
                /\ store' = r.store
                /\ call' = Call("allocate_stock", <<>>, item_id, quantity)
                /\ result' = r.result
                /\ printed' = r.printed
                /\ wrote' = r.wrote
                /\ report' = NoReport
                /\ found' = 0
                /\ net' = Tallied(net, stock_items, call', result')
                /\ UNCHANGED <<pc, input>>

\* the process ends and the program is run again: StockManager() on the same file
Restart ==
    \E readOk \in BOOLEAN :
        \E r \in {load_stock(store, readOk)} :
            /\ stock_items' = r.items
            /\ store' = store
            /\ call' = Call("init", <<>>, 0, 0)
            /\ result' = "None"
            /\ printed' = r.printed
            /\ wrote' = "none"
            /\ failures' = failures
            /\ report' = NoReport
            /\ found' = 0
            /\ net' = Constructed(store, r.items)
            /\ UNCHANGED <<pc, input>>

\* the caller asks for a report and keeps it until its next call of the ledger
GetReport ==
    /\ report' = get_report(stock_items)
    /\ found' = 0
    /\ call' = Call("get_report", <<>>, 0, 0)
    /\ result' = "Report"
    /\ printed' = <<>>
    /\ wrote' = "none"
    /\ UNCHANGED <<stock_items, store, failures, pc, input, net>>

\* what the caller can do to the list of a report: give a record another
\* quantity, drop the last record, append a record
Modifications(items) ==
    {[kind |-> "set", at |-> i, quantity |-> q] :
        i \in DOMAIN items, q \in 0 .. MaxStock}
    \cup {[kind |-> "pop", at |-> Len(items), quantity |-> 0] : x \in {1}}
    \cup {[kind |-> "append", at |-> Len(items) + 1, quantity |-> q] : q \in 1 .. MaxQty}

\* the list after the modification m
Modified(items, m) ==
    IF m.kind = "set" THEN [items EXCEPT ![m.at].quantity = m.quantity]
    ELSE IF m.kind = "pop" THEN SubSeq(items, 1, Len(items) - 1)
    ELSE Append(items, Item(0, Desk, m.quantity))

\* the caller modifies the list of the report it holds; a dict that is also a
\* dict of the ledger changes in the ledger too
ModifySnapshot ==
    /\ report.given
    /\ \E m \in Modifications(report.items) :
        /\ m.kind = "set" => report.items[m.at].quantity # m.quantity
        /\ m.kind = "pop" => report.items # <<>>
        /\ m.kind = "append" => Len(report.items) <= Len(stock_items)
        /\ report' = [report EXCEPT
                        !.items = Modified(report.items, m),
                        !.aliases = IF m.kind = "pop" /\ @ = Len(report.items)
                                    THEN @ - 1 ELSE @]
        /\ stock_items' = IF m.kind = "set" /\ m.at <= report.aliases
                          THEN [stock_items EXCEPT ![m.at].quantity = m.quantity]
                          ELSE stock_items
        /\ call' = Call("modify_snapshot", <<>>, m.at, m.quantity)
    /\ result' = "None"
    /\ printed' = <<>>
    /\ wrote' = "none"
    /\ found' = 0
    /\ UNCHANGED <<store, failures, pc, input, net>>

FindItemById ==
    \E item_id \in IdArgs :
        /\ found' = find_item_by_id(stock_items, item_id)
        /\ call' = Call("find_item_by_id", <<>>, item_id, 0)
        /\ result' = IF find_item_by_id(stock_items, item_id) = 0 THEN "None" ELSE "Item"
        /\ printed' = <<>>
        /\ wrote' = "none"
        /\ report' = NoReport
        /\ UNCHANGED <<stock_items, store, failures, pc, input, net>>

Next == AddStock \/ AllocateStock \/ Restart

Spec == Init /\ [][Next]_vars

\* one run of the program in which every save succeeds, with the reports and
\* the look-ups
NextReport ==
    \/ AddStock /\ wrote' # "failed"
    \/ AllocateStock /\ wrote' # "failed"
    \/ GetReport
    \/ ModifySnapshot
    \/ FindItemById

SpecReport == Init /\ [][NextReport]_vars


----------------------------------------------------------------------------
(* A run of the program on a storage file left by anything: the ledger is  *)
(* constructed on it, again and again.                                     *)

\* lists of at most two records
SampleLists ==
    {<<>>}
    \cup {<<Item(1, n, q)>> : n \in Names, q \in 0 .. MaxStock}
    \cup {<<Item(1, n, q), Item(2, m, p)>> :
            n \in Names, q \in 0 .. MaxStock, m \in Names, p \in 0 .. MaxStock}

\* texts that json.load refuses: the texts of the lists cut short, a lone bracket
UnparsableTexts ==
    {SubSeq(JsonDump(l), 1, k) : l \in {m \in SampleLists : Len(m) = 1}, k \in 0 .. 9}
    \cup {<<RB>>, <<LB, RB, RB>>}

\* texts of a value that is not an array
NonListTexts ==
    {<<IntTok(1)>>, <<StrTok(Chair)>>, <<LC, RC>>,
     <<LC, Key("id"), IntTok(1), Key("name"), StrTok(Chair), Key("quantity"), IntTok(1), RC>>}

\* texts of an array whose elements are not all {id, name, quantity} records
MalformedElementTexts ==
    {<<LB, IntTok(1), RB>>,
     <<LB, StrTok(Chair), IntTok(2), RB>>,
     <<LB, LC, RC, RB>>,
     <<LB, LC, Key("id"), IntTok(1), RC, RB>>,
     <<LB, LC, Key("id"), IntTok(1), Key("name"), StrTok(Chair), RC, RB>>,
     <<LB, LC, Key("id"), StrTok(Chair), Key("name"), IntTok(1),
           Key("quantity"), StrTok(Desk), RC, RB>>,
     <<LB, LC, Key("id"), IntTok(1), Key("name"), StrTok(Chair),
           Key("quantity"), IntTok(1), Key("price"), IntTok(2), RC, RB>>,
     <<LB>> \o DumpItem(Item(1, Chair, 1)) \o <<IntTok(2), RB>>}

InitialStores ==
    {NoFile}
    \cup {File(JsonDump(l)) : l \in SampleLists}
    \cup {File(t) : t \in UnparsableTexts \cup NonListTexts \cup MalformedElementTexts}

\* the ledger has been constructed on one of the files
InitLoad ==
    \E st \in InitialStores, readOk \in BOOLEAN :
        \E r \in {load_stock(st, readOk)} :
            /\ store = st
            /\ stock_items = r.items
            /\ call = Call("init", <<>>, 0, 0)
            /\ result = "None"
            /\ printed = r.printed
            /\ wrote = "none"
            /\ failures = 0
            /\ report = NoReport
            /\ found = 0
            /\ pc = "menu"
            /\ input = NoInput
            /\ net = Constructed(st, r.items)

NextLoad == Restart

SpecLoad == InitLoad /\ [][NextLoad]_vars

----------------------------------------------------------------------------
(* The program as its user sees it: one iteration of the menu loop a step. *)

\* the ledger has been constructed on a file that is missing, cut short, not
\* a list, or the list of one item
MainStores ==
    {NoFile, File(<<LB>>), File(<<IntTok(1)>>), File(JsonDump(<<Item(1, Chair, 1)>>))}

InitMain ==
    \E st \in MainStores, readOk \in BOOLEAN :
        \E r \in {load_stock(st, readOk)} :
            /\ store = st
            /\ stock_items = r.items
            /\ call = Call("init", <<>>, 0, 0)
            /\ result = "None"
            /\ printed = r.printed
            /\ wrote = "none"
            /\ failures = 0
            /\ report = NoReport
            /\ found = 0
            /\ pc = "menu"
            /\ input = NoInput
            /\ net = Constructed(st, r.items)

\* the state after an iteration with the outcome o
Iterated(o) ==
    /\ stock_items' = o.items
    /\ store' = o.store
    /\ call' = o.call
    /\ result' = o.result
    /\ printed' = o.printed
    /\ wrote' = o.wrote
    /\ failures' = failures + (IF o.wrote = "failed" THEN 1 ELSE 0)
    /\ pc' = o.pc
    /\ report' = NoReport
    /\ found' = 0
    /\ net' = Tallied(net, stock_items, o.call, o.result)

MenuAddStock ==
    /\ pc = "menu"
    /\ \E choice \in {c \in ChoiceInputs : Strip(c) = <<49>>}, name_in \in NameInputs :
        \E quantity_in \in IF Strip(name_in) = <<>> THEN {<<>>} ELSE QtyInputs :
            /\ choice_add(stock_items, store, name_in, quantity_in, IoOk).call.op = "add_stock"
                    => WithinBounds(Strip(name_in), IntOf(Strip(quantity_in)))
            /\ \E io \in Outcomes(choice_add(stock_items, store, name_in, quantity_in, IoOk)) :
                \E o \in {choice_add(stock_items, store, name_in, quantity_in, io)} :
                    /\ o.wrote = "failed" => failures < MaxMenuFailures
                    /\ Iterated(o)
                    /\ input' = Input(choice, name_in, <<>>, quantity_in)

MenuAllocateStock ==
    /\ pc = "menu"
    /\ \E choice \in {c \in ChoiceInputs : Strip(c) = <<50>>} :
        \E id_in \in IF stock_items = <<>> THEN {<<>>} ELSE IdInputs :
            \E quantity_in \in IF stock_items = <<>> \/ ~IsDigit(Strip(id_in))
                                  \/ IntRaises(Strip(id_in))
                               THEN {<<>>} ELSE QtyInputs :
                \E io \in Outcomes(choice_allocate(stock_items, store, id_in, quantity_in, IoOk)) :
                    \E o \in {choice_allocate(stock_items, store, id_in, quantity_in, io)} :
                        /\ o.wrote = "failed" => failures < MaxMenuFailures
                        /\ Iterated(o)
                        /\ input' = Input(choice, <<>>, id_in, quantity_in)

\* choice == '3': the report is printed
MenuViewReport ==
    /\ pc = "menu"
    /\ \E choice \in {c \in ChoiceInputs : Strip(c) = <<51>>} :
        /\ Iterated(Rejected(stock_items, store, "Report"))
        /\ input' = Input(choice, <<>>, <<>>, <<>>)

\* choice == '4': the items are printed
MenuViewItems ==
    /\ pc = "menu"
    /\ \E choice \in {c \in ChoiceInputs : Strip(c) = <<52>>} :
        /\ Iterated(Rejected(stock_items, store,
                IF stock_items = <<>> THEN "NoStockItemsFound" ELSE "Items"))
        /\ input' = Input(choice, <<>>, <<>>, <<>>)

\* choice == '5': sys.exit(0)
MenuExit ==
    /\ pc = "menu"
    /\ \E choice \in {c \in ChoiceInputs : Strip(c) = <<53>>} :
        /\ Iterated([Rejected(stock_items, store, "Goodbye") EXCEPT !.pc = "exit0"])
        /\ input' = Input(choice, <<>>, <<>>, <<>>)

\* any other choice
MenuInvalid ==
    /\ pc = "menu"
    /\ \E choice \in {c \in ChoiceInputs : Strip(c) \notin {<<49>>, <<50>>, <<51>>, <<52>>, <<53>>}} :
        /\ Iterated(Rejected(stock_items, store, "InvalidChoice"))
        /\ input' = Input(choice, <<>>, <<>>, <<>>)

NextMain ==
    \/ MenuAddStock
    \/ MenuAllocateStock
    \/ MenuViewReport
    \/ MenuViewItems
    \/ MenuExit
    \/ MenuInvalid

SpecMain == InitMain /\ [][NextMain]_vars

----------------------------------------------------------------------------
(* The ledger constructed on a file that load_stock discards. *)

\* files that do not parse and files of a value that is not an array
CorruptStores ==
    {File(<<>>), File(<<LB>>), File(<<RB>>),
     File(SubSeq(JsonDump(<<Item(1, Chair, 1)>>), 1, 9)),
     File(<<IntTok(1)>>), File(<<LC, RC>>)}

InitCorrupt ==
    \E st \in CorruptStores :
        \E r \in {load_stock(st, TRUE)} :
            /\ store = st
            /\ stock_items = r.items
            /\ call = Call("init", <<>>, 0, 0)
            /\ result = "None"
            /\ printed = r.printed
            /\ wrote = "none"
            /\ failures = 0
            /\ report = NoReport
            /\ found = 0
            /\ pc = "menu"
            /\ input = NoInput
            /\ net = Constructed(st, r.items)

NextCorrupt ==
    \/ AddStock
    \/ AllocateStock
    \/ GetReport
    \/ FindItemById

SpecCorrupt == InitCorrupt /\ [][NextCorrupt]_vars

----------------------------------------------------------------------------
(* Properties of the ledger. *)

IsAdd(c) == c.op = "add_stock"
IsAllocate(c) == c.op = "allocate_stock"

\* the indices of the items whose name is name up to case
SameName(items, name) == {i \in DOMAIN items : Lower(items[i].name) = Lower(name)}

\* the indices of the items whose id is item_id
SameId(items, item_id) == {i \in DOMAIN items : items[i].id = item_id}

\* items and after differ at most in the quantity of the item at index i
OnlyQuantityAt(items, after, i) ==
    /\ Len(after) = Len(items)
    /\ \A j \in DOMAIN items : j # i => after[j] = items[j]
    /\ after[i].id = items[i].id
    /\ after[i].name = items[i].name

\* C1: whatever the arguments of add_stock and allocate_stock were (zero,
\* negative, larger than the stock, an id no item has), the quantity of every
\* item of the ledger is at least 0.
C1_QuantityNonNegative ==
    \A i \in DOMAIN stock_items : stock_items[i].quantity >= 0

\* an allocation of more than the item holds has just been refused
C1_Witness ==
    /\ IsAllocate(call)
    /\ result = "False"
    /\ \E i \in DOMAIN stock_items :
        /\ stock_items[i].id = call.item_id
        /\ call.quantity > stock_items[i].quantity

UniqueIds ==
    \A i, j \in DOMAIN stock_items :
        stock_items[i].id = stock_items[j].id => i = j

\* a step of add_stock that creates an item gives it an id above every id
\* the ledger held
NewIdAboveAll ==
    (IsAdd(call') /\ Len(stock_items') > Len(stock_items)) =>
        \A i \in DOMAIN stock_items :
            stock_items'[Len(stock_items')].id > stock_items[i].id

\* C2: no two items of the ledger share an id, and an item created by
\* add_stock gets an id strictly greater than the id of every item created
\* before it, so that no id is used twice.
C2_IdsUniqueAndIncreasing == [](UniqueIds) /\ [][NewIdAboveAll]_vars

\* add_stock has just created a second item
C2_Witness ==
    /\ IsAdd(call)
    /\ result = "None"
    /\ Len(stock_items) = 2
    /\ stock_items[1].id = 1
    /\ stock_items[2].id = 2

\* C3: allocate_stock(id, q), q > 0, on an item that holds Q: when q <= Q it
\* returns True, the item holds Q - q >= 0 and nothing else of the ledger
\* changes; when q > Q it returns False after the insufficient-stock message,
\* and the ledger and the file are as before, no save being made.
C3_Allocate ==
    [][(IsAllocate(call') /\ call'.quantity > 0) =>
        \A i \in SameId(stock_items, call'.item_id) :
            IF call'.quantity <= stock_items[i].quantity
            THEN /\ result' = "True"
                 /\ OnlyQuantityAt(stock_items, stock_items', i)
                 /\ stock_items'[i].quantity = stock_items[i].quantity - call'.quantity
                 /\ stock_items'[i].quantity >= 0
            ELSE /\ result' = "False"
                 /\ printed' = <<"InsufficientStock">>
                 /\ stock_items' = stock_items
                 /\ store' = store
                 /\ wrote' = "none"]_vars

\* the whole stock of the second of two items has just been allocated
C3_Witness ==
    /\ IsAllocate(call)
    /\ result = "True"
    /\ call.item_id = 2
    /\ Len(stock_items) = 2
    /\ stock_items[2].quantity = 0
    /\ stock_items[1].quantity > 0

\* C4: add_stock(name, q), q > 0, when an item has that name up to case, adds
\* q to the quantity of that item and changes nothing else: the id, the stored
\* name, the position, the number of items and the other items stay.
C4_AddExisting ==
    [][(IsAdd(call') /\ call'.quantity > 0) =>
        \A i \in SameName(stock_items, call'.name) :
            /\ OnlyQuantityAt(stock_items, stock_items', i)
            /\ stock_items'[i].quantity = stock_items[i].quantity + call'.quantity]_vars

\* "Chair" was added to the empty ledger and then "chair": one item, id 1, "Chair"
C4_Witness ==
    /\ call = Call("add_stock", chair, 0, 1)
    /\ result = "None"
    /\ stock_items = <<[id |-> 1, name |-> Chair, quantity |-> 2]>>

\* C5: add_stock(name, q), q > 0, when no item has that name up to case,
\* appends one item with the id (largest id) + 1, or 1 for the empty ledger,
\* the name as given and the quantity q; the items already there stay, in
\* their order.
C5_AddNew ==
    [][(IsAdd(call') /\ call'.quantity > 0 /\ SameName(stock_items, call'.name) = {}) =>
        stock_items' = Append(stock_items,
            [id |-> IF stock_items = <<>> THEN 1
                    ELSE 1 + CHOOSE m \in {stock_items[i].id : i \in DOMAIN stock_items} :
                                \A i \in DOMAIN stock_items : stock_items[i].id <= m,
             name |-> call'.name,
             quantity |-> call'.quantity])]_vars

\* "Desk" then "Chair" were added: ids 1 then 2 in the order of the calls
C5_Witness ==
    /\ IsAdd(call)
    /\ call.name = Chair
    /\ Len(stock_items) = 2
    /\ stock_items[1].id = 1 /\ stock_items[1].name = Desk
    /\ stock_items[2].id = 2 /\ stock_items[2].name = Chair


\* C6: add_stock and allocate_stock called with a quantity <= 0 raise the
\* invalid-quantity error before anything is changed, whatever the name or
\* the id: the ledger is as before and the file is not written.
C6_InvalidQuantity ==
    [][((IsAdd(call') \/ IsAllocate(call')) /\ call'.quantity <= 0) =>
        /\ result' = "ValueError"
        /\ stock_items' = stock_items
        /\ store' = store
        /\ wrote' = "none"]_vars

\* add_stock was called with the quantity 0 and the name of an item of the ledger
C6_Witness ==
    /\ IsAdd(call)
    /\ call.quantity = 0
    /\ result = "ValueError"
    /\ SameName(stock_items, call.name) # {}

\* C7: allocate_stock(id, q), q > 0, with an id that no item has returns False
\* after the item-not-found message, changes no item and does not save: the
\* file is as before.
C7_ItemNotFound ==
    [][(IsAllocate(call') /\ call'.quantity > 0 /\ SameId(stock_items, call'.item_id) = {}) =>
        /\ result' = "False"
        /\ printed' = <<"ItemNotFound">>
        /\ stock_items' = stock_items
        /\ store' = store
        /\ wrote' = "none"]_vars

\* an allocation from the id 0 was refused by a ledger that holds items
C7_Witness ==
    /\ IsAllocate(call)
    /\ call.item_id = 0
    /\ call.quantity > 0
    /\ printed = <<"ItemNotFound">>
    /\ stock_items # <<>>
    /\ store.exists

\* the last call was a mutating call that succeeded
Mutated ==
    \/ IsAdd(call) /\ result = "None"
    \/ IsAllocate(call) /\ result = "True"

\* C8: as long as no write of the file has failed, after every add_stock that
\* returns and every allocate_stock that returns True the file holds the whole
\* list of the ledger: same ids, names, quantities, in the same order.
C8_SavedAfterMutation ==
    (failures = 0 /\ Mutated) =>
        /\ store.exists
        /\ store.text # <<>>
        /\ store.text[1] = LB
        /\ store.text[Len(store.text)] = RB
        /\ Len(store.text) = 2 + 8 * Len(stock_items)
        /\ \A i \in DOMAIN stock_items :
            /\ SubSeq(store.text, 8 * i - 6, 8 * i + 1) =
                    <<LC, Key("id"), IntTok(stock_items[i].id),
                      Key("name"), StrTok(stock_items[i].name),
                      Key("quantity"), IntTok(stock_items[i].quantity), RC>>

\* an allocation has just succeeded in a ledger of two items, the file having
\* been written several times without a failure
C8_Witness ==
    /\ failures = 0
    /\ IsAllocate(call)
    /\ result = "True"
    /\ Len(stock_items) = 2

RECURSIVE SumQuantity(_)
SumQuantity(items) ==
    IF items = <<>> THEN 0
    ELSE Head(items).quantity + SumQuantity(Tail(items))

\* a failed save leaves the call as it is without the failure: it returns
\* normally and the list keeps the quantity added or taken
KeptInMemory ==
    wrote' = "failed" =>
        /\ "SaveError" \in {printed'[i] : i \in DOMAIN printed'}
        /\ IsAdd(call') =>
            /\ result' = "None"
            /\ SumQuantity(stock_items') = SumQuantity(stock_items) + call'.quantity
        /\ IsAllocate(call') =>
            /\ result' = "True"
            /\ SumQuantity(stock_items') = SumQuantity(stock_items) - call'.quantity

\* a save that succeeds writes the whole list, whatever was lost before
NextSaveWritesAll == wrote' = "ok" => store' = File(JsonDump(stock_items'))

\* the file after a failed save does not hold the list of the ledger
StoreDiffers == wrote' = "failed" => store' # File(JsonDump(stock_items'))

\* the file after a failed save is the file as it was, or a truncated text
StoreNotUpdated ==
    wrote' = "failed" =>
        \/ store' = store
        \/ store'.exists /\ ~JsonLoad(store'.text).ok

\* C9, as stated: when the write fails in add_stock or in a sufficient
\* allocate_stock, the call returns normally, the list keeps the change, the
\* file does not hold the changed list, and the next save that succeeds
\* writes the whole list.
C9_AsStated == [][KeptInMemory /\ StoreDiffers /\ NextSaveWritesAll]_vars

\* C9, amended: when the write fails in add_stock or in a sufficient
\* allocate_stock, the call returns normally, the list keeps the change, the
\* file is not updated by the call (it keeps its content or is left
\* truncated), and the next save that succeeds writes the whole list.
C9_NoRollback == [][KeptInMemory /\ StoreNotUpdated /\ NextSaveWritesAll]_vars

\* a save succeeded after an earlier one had failed, and the file holds two items
C9_Witness ==
    /\ failures > 0
    /\ wrote = "ok"
    /\ Len(stock_items) = 2
    /\ store = File(JsonDump(stock_items))

\* C10: for every state of the ledger, saving it and constructing a new
\* ledger on the same file gives the same list: same ids, names, quantities,
\* in the same order.
C10_RoundTrip ==
    load_stock(save_stock(stock_items, store, IoOk).store, TRUE).items = stock_items

\* the program was run again and has loaded the two items "Desk", "chair"
\* that the run before had saved
C10_Witness ==
    /\ call.op = "init"
    /\ Len(stock_items) = 2
    /\ stock_items[1].name = Desk
    /\ stock_items[2].name = chair
    /\ store = File(JsonDump(stock_items))


\* the text is the text of an array, whatever its elements are
ArrayText(text) ==
    /\ Len(text) >= 2
    /\ text[1].t = "["
    /\ text[Len(text)].t = "]"
    /\ \A i \in 2 .. (Len(text) - 1) : text[i].t \notin {"[", "]"}
    /\ \A i \in 2 .. (Len(text) - 1) :
        text[i].t = "key" => /\ i < Len(text) - 1
                             /\ text[i + 1].t \in {"int", "str"}

\* the file holds an array with an element that is not a well-formed record
MalformedElements ==
    /\ store.exists
    /\ ArrayText(store.text)
    /\ ~ListOfRecords(store.text)

\* the ledger starts empty when there is no file, when the file is anything
\* but an array of well-formed records, and when reading it failed
StartsEmpty ==
    call.op = "init" =>
        /\ result = "None"
        /\ ~store.exists => stock_items = <<>>
        /\ (store.exists /\ ~ListOfRecords(store.text)) => stock_items = <<>>
        /\ printed = <<"ReadWarning">> => stock_items = <<>>

\* C11: constructing the ledger gives the empty list, raises nothing and
\* leaves the file as it is when there is no file, when the content does not
\* parse, when it is not an array, when it is an array with an element that
\* is not an {id, name, quantity} record, and when the read fails.
C11_AsStated ==
    [](StartsEmpty) /\ [][call'.op = "init" => store' = store]_vars


IsReport(c) == c.op = "get_report"
IsModify(c) == c.op = "modify_snapshot"

\* C12: the report get_report returns after any calls of add_stock and
\* allocate_stock, none included, gives the number of items of the ledger, the
\* sum of their quantities (0 and 0 and the empty list for the empty ledger)
\* and the records of the ledger in their order.
C12_Report ==
    IsReport(call) =>
        /\ report.total_distinct_items = Len(stock_items)
        /\ report.total_quantity = SumQuantity(stock_items)
        /\ report.items = stock_items
        /\ stock_items = <<>> =>
            /\ report.total_distinct_items = 0
            /\ report.total_quantity = 0
            /\ report.items = <<>>

\* a report of two items, one of them out of stock after an allocation
C12_Witness ==
    /\ IsReport(call)
    /\ report.total_distinct_items = 2
    /\ report.total_quantity = 2
    /\ \E i \in DOMAIN stock_items : stock_items[i].quantity = 0

\* C13: get_report only reads: the list and the file are as before and nothing
\* is saved; whatever the caller then does to the list it was given (another
\* quantity in a record, a record dropped or appended), the items of the
\* ledger stay, and a later report gives the ledger again.
C13_ReportIsSnapshot ==
    [][/\ IsReport(call') =>
            /\ stock_items' = stock_items
            /\ store' = store
            /\ wrote' = "none"
            /\ report'.items = stock_items
       /\ IsModify(call') =>
            /\ stock_items' = stock_items
            /\ store' = store]_vars

\* the caller has changed a quantity in the report of a ledger of two items
C13_Witness ==
    /\ IsModify(call)
    /\ Len(stock_items) = 2
    /\ Len(report.items) = 2
    /\ report.items[1].quantity # stock_items[1].quantity


\* C14, as stated: an add_stock that succeeds returns the resulting item, the
\* item it updated or the item it created.
C14_AsStated ==
    (IsAdd(call) /\ result # "ValueError") =>
        /\ result = "Item"
        /\ found \in SameName(stock_items, call.name)

\* C14, amended: an add_stock that succeeds returns nothing (None) on both
\* branches; the resulting item is in the ledger and is only reported by the
\* message printed, "updated" for an item that was there, "added" for a new
\* one.
C14_ReturnsNothing ==
    [][(IsAdd(call') /\ call'.quantity > 0) =>
        /\ result' = "None"
        /\ found' = 0
        /\ printed'[1] = IF SameName(stock_items, call'.name) # {}
                         THEN "Updated" ELSE "Added"
        /\ \E i \in SameName(stock_items', call'.name) :
            stock_items'[i].quantity >= call'.quantity]_vars

\* add_stock has returned after updating the second of two items
C14_Witness ==
    /\ IsAdd(call)
    /\ result = "None"
    /\ printed = <<"Updated">>
    /\ Len(stock_items) = 2
    /\ 2 \in SameName(stock_items, call.name)

\* C15: no two items of the ledger have the same name up to case, so that
\* the search of add_stock matches one item at most.
C15_NamesUnique ==
    \A i, j \in DOMAIN stock_items :
        Lower(stock_items[i].name) = Lower(stock_items[j].name) => i = j

\* "chair" was added to a ledger of two items that holds "Chair"
C15_Witness ==
    /\ call = Call("add_stock", chair, 0, 1)
    /\ result = "None"
    /\ Len(stock_items) = 2
    /\ \E i \in DOMAIN stock_items :
        stock_items[i].name = Chair /\ stock_items[i].quantity = 2

\* what a prompt for a number is given: a decimal numeral, and a positive one
Numeral(s) == Strip(s) # <<>> /\ \A i \in DOMAIN Strip(s) : Strip(s)[i] \in 48 .. 57
PositiveNumeral(s) == Numeral(s) /\ \E i \in DOMAIN Strip(s) : Strip(s)[i] # 48

\* C16: No error is fatal to the dispatcher: every iteration of the menu loop,
\* whatever error it met, ends back at the menu, and the process terminates
\* only through menu choice 5, with the success status.
C16_AsStated ==
    [][pc' = "menu" \/ (pc' = "exit0" /\ Strip(input'.choice) = <<53>>)]_vars

\* an input the menu is to reject: an invalid choice, an empty name, an id or
\* a quantity that is not a numeral or not a positive one
InvalidInput(inp) ==
    \/ Strip(inp.choice) \notin {<<49>>, <<50>>, <<51>>, <<52>>, <<53>>}
    \/ /\ Strip(inp.choice) = <<49>>
       /\ Strip(inp.name) = <<>> \/ ~PositiveNumeral(inp.quantity_str)
    \/ /\ Strip(inp.choice) = <<50>>
       /\ ~PositiveNumeral(inp.id_str) \/ ~PositiveNumeral(inp.quantity_str)

\* C17: In the menu loop an invalid choice, an empty name, or a non-numeric or
\* non-positive id or quantity changes neither the ledger nor the store, and
\* the loop goes back to the menu; a mutation is reached by valid inputs only.
C17_AsStated ==
    [][pc = "menu" /\ InvalidInput(input')
           => /\ stock_items' = stock_items
              /\ store' = store
              /\ wrote' = "none"
              /\ pc' = "menu"]_vars

\* the ids and names of the items, in order
IdsAndNames(items) == [i \in DOMAIN items |-> <<items[i].id, items[i].name>>]

IsPrefix(a, b) == Len(a) <= Len(b) /\ SubSeq(b, 1, Len(a)) = a

\* C18: The item sequence is append-only: across every step (add_stock,
\* allocate_stock, get_report, find_item_by_id) the previous sequence of
\* (id, name) pairs is a prefix of the new one, and the only step that lowers
\* a quantity is a successful allocate_stock.
C18_AppendOnly ==
    [][/\ IsPrefix(IdsAndNames(stock_items), IdsAndNames(stock_items'))
       /\ (\E i \in DOMAIN stock_items :
               /\ i \in DOMAIN stock_items'
               /\ stock_items'[i].quantity < stock_items[i].quantity)
            => IsAllocate(call') /\ result' = "True"]_vars

\* an allocation has taken the first of two items down to nothing, and both
\* are still there, in order
C18_Witness ==
    /\ IsAllocate(call) /\ result = "True"
    /\ Len(stock_items) = 2
    /\ stock_items[1].quantity = 0
    /\ call.item_id = stock_items[1].id

\* the file is there and load_stock discards it
Corrupt(st) ==
    st.exists /\ (~JsonLoad(st.text).ok \/ ~JsonLoad(st.text).is_list)

\* C19 as stated: After a ledger is initialized from a corrupt store, the file
\* keeps its corrupt content through every operation that does not save, and
\* the next save overwrites the corrupt file with an empty ledger.
C19_AsStated ==
    [][Corrupt(store) /\ stock_items = <<>>
           => /\ wrote' = "none" => store' = store
              /\ wrote' = "ok" => store' = File(JsonDump(<<>>))]_vars

\* C19: While the file is corrupt, every call that does not save leaves it as
\* it is, and the next successful save replaces it by the text of the ledger's
\* items, which is never the empty ledger: after the first mutation of a
\* ledger initialized from the corrupt file it is the one item just added.
C19_NextSaveWritesLedger ==
    [][Corrupt(store)
           => /\ wrote' = "none" => store' = store
              /\ wrote' = "ok"
                   => /\ store' = File(JsonDump(stock_items'))
                      /\ stock_items' # <<>>
              /\ stock_items = <<>> /\ wrote' = "ok"
                   => /\ IsAdd(call')
                      /\ store' = File(JsonDump(<<Item(1, call'.name, call'.quantity)>>))]_vars

\* the first save of a ledger constructed on a corrupt file has replaced it
C19_Witness ==
    /\ wrote = "ok" /\ failures = 0
    /\ call = Call("add_stock", Desk, 0, 1)
    /\ stock_items = <<Item(1, Desk, 1)>>
    /\ store = File(JsonDump(<<Item(1, Desk, 1)>>))

\* the items of the list under the name n, up to case
Named(items, n) == SelectSeq(items, LAMBDA item : Lower(item.name) = n)

\* C20: Conservation of stock: for a ledger started empty, after any sequence
\* of calls the sum of the quantities of the items equals the quantities of
\* the add_stock calls that succeeded less the quantities of the
\* allocate_stock calls that returned True, calls that failed counting for
\* nothing; and so it is for the items of each name.
C20_Conservation ==
    /\ \A n \in NameClasses : SumQuantity(Named(stock_items, n)) = net[n]
    /\ SumQuantity(stock_items) = net[Lower(Chair)] + net[Lower(Desk)]

\* of two chairs added one has been allocated, and the desk added as well
C20_Witness ==
    /\ IsAllocate(call) /\ result = "True"
    /\ Len(stock_items) = 2
    /\ net[Lower(Chair)] = 1
    /\ net[Lower(Desk)] = 0
    /\ SumQuantity(stock_items) = 1

====
